---- MODULE Spec2Model ----
(***************************************************************************)
(* The posture-to-risk scoring engine of cab-comfort (the side-view        *)
(* variant in src/src/hooks/usePoseDetection.ts): camera-side detection,   *)
(* landmark selection, segment angles, the five joint classifiers, the     *)
(* RULA table combiner, the risk tier and the recommendations.             *)
(*                                                                         *)
(* Numbers.  Landmark coordinates are multiples of 1/20, held as the       *)
(* integer numerator (0.55 is 11, and 0.5 is 10); the postures handed to a *)
(* single classifier are multiples of 1/32 (0.5 is 16).  Every             *)
(* quantity the code compares is a ratio of coordinate differences, so it  *)
(* does not depend on the unit.  An angle in degrees is held as its        *)
(* ordinal Ord(a) = 2*floor(a) + (0 if a is a whole number of degrees,     *)
(* else 1): for a whole number t, a >= t iff Ord(a) >= 2t, a > t iff       *)
(* Ord(a) > 2t, and likewise for <= and <; Ord(-a) = -Ord(a) and           *)
(* Ord(180-a) = 360-Ord(a).  The sign of a zero is kept where Math.atan2   *)
(* reads it.                                                               *)
(***************************************************************************)
EXTENDS Integers, Sequences, FiniteSets, TLC

VARIABLES
    landmarks,   \* the landmark snapshot handed to calculateRULAScore
    rulaScores,  \* the published result (null before the first one)
    console,     \* the labels written with console.log, in order
    calls,       \* the calls made so far: <<[input, output], ...>>
    args,        \* the arguments of the function a run applies on its own
    result,      \* what that function returned
    \* usePoseDetection
    isLoading,          \* useState(false)
    error,              \* useState(null)
    isDetecting,        \* useState(false)
    poseLandmarkerRef,  \* the landmarker the hook holds, or null
    animationFrameRef,  \* the id of the latest animation-frame request, or null
    pending,            \* the startDetection calls that await initialisation
    scheduled,          \* the loops that have an animation-frame callback requested
    open,               \* the landmarkers created and not closed
    starts,             \* how many times startDetection has been called
    stopped,            \* stopDetection was called and startDetection not since
    lastStep,           \* what the latest step of the hook did
    frameParity,        \* flips each time an animation-frame callback runs
    \* the clock (Date / Date.now), in the unit each run states
    now,
    \* PostureHistory
    currentScore,       \* the prop: [finalScore, risk] or null
    history,            \* useState([])
    appended,           \* every entry the effect has appended, in order
    \* PostureAlert
    scoresProp,         \* the prop scores: [risk] or null
    showAlert,          \* useState(false)
    soundEnabled,       \* useState(true)
    lastAlertTimeRef,   \* useRef(0)
    timers,             \* the due times of the setTimeout calls not yet fired
    alertLog            \* the alerts triggered so far: <<[at, risk, enabled, sound], ...>>

engineVars == <<landmarks, rulaScores, console, calls, args, result>>

hookVars ==
    <<isLoading, error, isDetecting, poseLandmarkerRef, animationFrameRef,
      pending, scheduled, open, starts, stopped, lastStep, frameParity>>

historyVars == <<currentScore, history, appended>>

alertVars == <<scoresProp, showAlert, soundEnabled, lastAlertTimeRef, timers, alertLog>>

\* The state of the page around the scoring engine
pageVars == <<hookVars, now, historyVars, alertVars>>

vars == <<engineVars, pageVars>>

----------------------------------------------------------------------------
(* Bounds of the model *)

\* how many postures of each side, and head positions, a snapshot draws from
PoolSize == 3

\* how many calculateRULAScore calls a run of SpecRepeat makes
MaxCalls == 3

----------------------------------------------------------------------------
(* Data model *)

Null == [null |-> TRUE]

Pt(px, py) == [x |-> px, y |-> py]

Slots == {"nose", "leftShoulder", "rightShoulder", "leftElbow", "rightElbow",
          "leftWrist", "rightWrist", "leftHip", "rightHip", "leftEar", "rightEar"}

\* A snapshot is a function from the slots that are present to their points
\* (an absent slot is an undefined property).
Has(l, slot) == slot \in DOMAIN l

Min(a, b) == IF a <= b THEN a ELSE b

Abs(a) == IF a < 0 THEN -a ELSE a

----------------------------------------------------------------------------
(* Math.atan2 and Math.acos, in degrees *)

TrigScale == 10000000

\* floor(tan(d degrees) * TrigScale) for d = 1..45
TanTable == <<
    174550, 349207, 524077, 699268, 874886,
    1051042, 1227845, 1405408, 1583844, 1763269,
    1943803, 2125565, 2308681, 2493280, 2679491,
    2867453, 3057306, 3249196, 3443276, 3639702,
    3838640, 4040262, 4244748, 4452286, 4663076,
    4877325, 5095254, 5317094, 5543090, 5773502,
    6008606, 6248693, 6494075, 6745085, 7002075,
    7265425, 7535540, 7812856, 8097840, 8390996,
    8692867, 9004040, 9325150, 9656887, 10000000 >>

\* Ord of the angle atan(opp/adj) for opp > 0, adj > 0 and opp <= adj: the
\* angle lies in (0, 45], and is a whole number of degrees only at 45.
OrdOctant(opp, adj) ==
    IF opp = adj THEN 90
    ELSE 2 * Cardinality({d \in 1..44 : TanTable[d] * adj <= opp * TrigScale}) + 1

\* Ord of atan(opp/adj) for opp > 0, adj > 0: an angle in (0, 90).
OrdQuadrant(opp, adj) ==
    IF opp <= adj THEN OrdOctant(opp, adj) ELSE 180 - OrdOctant(adj, opp)

\* Ord of Math.atan2(a, b) * (180 / Math.PI).  aNeg and bNeg give the sign
\* of a and of b when they are zero (TRUE: -0).
Atan2Deg(a, aNeg, b, bNeg) ==
    IF a = 0
    THEN IF b > 0 \/ (b = 0 /\ ~bNeg)
         THEN 0                              \* +0 or -0
         ELSE IF aNeg THEN -360 ELSE 360     \* -180 or 180
    ELSE LET m == IF b = 0 THEN 180
                  ELSE IF b > 0 THEN OrdQuadrant(Abs(a), b)
                  ELSE 360 - OrdQuadrant(Abs(a), -b)
         IN  IF a > 0 THEN m ELSE -m

\* Ord of Math.acos(c) * (180 / Math.PI) where c is dot / (mag1 * mag2)
\* clamped to [-1, 1], for two non-zero vectors with the given dot product
\* and cross product: the angle between them, in [0, 180].
AcosDeg(dot, cross) == Atan2Deg(Abs(cross), FALSE, dot, FALSE)

----------------------------------------------------------------------------
(* Camera side and landmark selection *)

\* [...].filter(Boolean).length
CountPresent(l, slots) == Cardinality({s \in slots : Has(l, s)})

LeftSlots == {"leftShoulder", "leftElbow", "leftWrist", "leftHip", "leftEar"}

RightSlots == {"rightShoulder", "rightElbow", "rightWrist", "rightHip", "rightEar"}

\* detectCameraSide with the nose compared to the left shoulder alone, not
\* to the midpoint of the shoulders
detectCameraSideOneShoulder(l) ==
    LET leftScore  == CountPresent(l, LeftSlots)
        rightScore == CountPresent(l, RightSlots)
    IN  IF leftScore > rightScore THEN "right"
        ELSE IF rightScore > leftScore THEN "left"
        ELSE IF Has(l, "nose") /\ Has(l, "leftShoulder") /\ Has(l, "rightShoulder")
             THEN IF l["nose"].x < l["leftShoulder"].x THEN "right" ELSE "left"
             ELSE "unknown"

\* detectCameraSide with <= where the code has <
detectCameraSideLe(l) ==
    LET leftScore  == CountPresent(l, LeftSlots)
        rightScore == CountPresent(l, RightSlots)
    IN  IF leftScore > rightScore THEN "right"
        ELSE IF rightScore > leftScore THEN "left"
        ELSE IF Has(l, "nose") /\ Has(l, "leftShoulder") /\ Has(l, "rightShoulder")
             THEN IF 2 * l["nose"].x <= l["leftShoulder"].x + l["rightShoulder"].x
                  THEN "right"
                  ELSE "left"
             ELSE "unknown"

\* detectCameraSide naming the side it sees, not the side the camera is on
detectCameraSideSeen(l) ==
    LET leftScore  == CountPresent(l, LeftSlots)
        rightScore == CountPresent(l, RightSlots)
    IN  IF leftScore > rightScore THEN "left"
        ELSE IF rightScore > leftScore THEN "right"
        ELSE IF Has(l, "nose") /\ Has(l, "leftShoulder") /\ Has(l, "rightShoulder")
             THEN IF 2 * l["nose"].x < l["leftShoulder"].x + l["rightShoulder"].x
                  THEN "right"
                  ELSE "left"
             ELSE "unknown"

detectCameraSide(l) ==
    LET leftScore  == CountPresent(l, LeftSlots)
        rightScore == CountPresent(l, RightSlots)
    IN  IF leftScore > rightScore THEN "right"
        ELSE IF rightScore > leftScore THEN "left"
        ELSE IF Has(l, "nose") /\ Has(l, "leftShoulder") /\ Has(l, "rightShoulder")
             \* nose.x < (leftShoulder.x + rightShoulder.x) / 2
             THEN IF 2 * l["nose"].x < l["leftShoulder"].x + l["rightShoulder"].x
                  THEN "right"
                  ELSE "left"
             ELSE "unknown"

\* a || b on two optional landmarks: the slot whose point the expression
\* yields, "undefined" when both are absent
OrElse(l, a, b) ==
    IF Has(l, a) THEN a ELSE IF Has(l, b) THEN b ELSE "undefined"

\* getPrimaryLandmarks taking the preferred side only, with no fallback
\* to the other side
getPrimaryLandmarksNoFallback(l, cameraSide) ==
    LET useLeft == cameraSide = "right" \/ cameraSide = "unknown"
        sel(left, right) == IF useLeft THEN OrElse(l, left, left)
                                       ELSE OrElse(l, right, right)
        slot == [shoulder |-> sel("leftShoulder", "rightShoulder"),
                 elbow    |-> sel("leftElbow", "rightElbow"),
                 wrist    |-> sel("leftWrist", "rightWrist"),
                 hip      |-> sel("leftHip", "rightHip"),
                 ear      |-> sel("leftEar", "rightEar")]
    IN  [k \in {j \in DOMAIN slot : slot[j] # "undefined"} |-> l[slot[k]]]

\* The selected landmarks: a function from the parts that resolved
\* ("shoulder", "elbow", "wrist", "hip", "ear") to their points; a part
\* that is undefined is not in its domain.
getPrimaryLandmarks(l, cameraSide) ==
    LET useLeft == cameraSide = "right" \/ cameraSide = "unknown"
        sel(left, right) == IF useLeft THEN OrElse(l, left, right)
                                       ELSE OrElse(l, right, left)
        slot == [shoulder |-> sel("leftShoulder", "rightShoulder"),
                 elbow    |-> sel("leftElbow", "rightElbow"),
                 wrist    |-> sel("leftWrist", "rightWrist"),
                 hip      |-> sel("leftHip", "rightHip"),
                 ear      |-> sel("leftEar", "rightEar")]
    IN  [k \in {j \in DOMAIN slot : slot[j] # "undefined"} |-> l[slot[k]]]

----------------------------------------------------------------------------
(* Segment angles *)

\* calculateAngle taking a zero-length ray for a right angle
calculateAngleDegenerate90(p1, p2, p3) ==
    LET v1x == p1.x - p2.x
        v1y == p1.y - p2.y
        v2x == p3.x - p2.x
        v2y == p3.y - p2.y
        dot == v1x * v2x + v1y * v2y
    IN  IF (v1x = 0 /\ v1y = 0) \/ (v2x = 0 /\ v2y = 0) THEN 2 * 90
        ELSE AcosDeg(dot, v1x * v2y - v1y * v2x)

\* Ord of the angle at p2 between the rays to p1 and p3, in [0, 180]
calculateAngle(p1, p2, p3) ==
    LET v1x == p1.x - p2.x
        v1y == p1.y - p2.y
        v2x == p3.x - p2.x
        v2y == p3.y - p2.y
        dot == v1x * v2x + v1y * v2y
    IN  \* mag1 === 0 || mag2 === 0
        IF (v1x = 0 /\ v1y = 0) \/ (v2x = 0 /\ v2y = 0) THEN 0
        ELSE AcosDeg(dot, v1x * v2y - v1y * v2x)

\* calculateArmAngleFromDown without the sign flip for a right-side camera
calculateArmAngleNoFlip(shoulder, elbow, cameraSide) ==
    Atan2Deg(elbow.x - shoulder.x, FALSE, elbow.y - shoulder.y, FALSE)

\* Ord of the angle of shoulder->elbow from the downward vertical
calculateArmAngleFromDown(shoulder, elbow, cameraSide) ==
    LET dx0 == elbow.x - shoulder.x
        dy  == elbow.y - shoulder.y
        flip == cameraSide = "right"
        dx  == IF flip THEN -dx0 ELSE dx0
    IN  Atan2Deg(dx, flip, dy, FALSE)

----------------------------------------------------------------------------
(* Joint classifiers.  Each yields [score, log]: the score it returns and  *)
(* the console.log labels it wrote on the way.                             *)

Scored(n, labels) == [score |-> n, log |-> labels]

\* upperArmBand with the 1-6 scale of the frontal variant left in its last
\* branch
upperArmBandWide(armAngle) ==
    IF armAngle >= 2 * 30 /\ armAngle <= 2 * 90 THEN 1
    ELSE IF armAngle >= 2 * 15 /\ armAngle < 2 * 30 THEN 2
    ELSE IF armAngle > 2 * 90 /\ armAngle <= 2 * 110 THEN 2
    ELSE IF armAngle >= 0 /\ armAngle < 2 * 15 THEN 3
    ELSE IF armAngle > 2 * 110 THEN 3
    ELSE 5

\* upperArmBand with its best band open at 30 degrees
upperArmBandOpen(armAngle) ==
    IF armAngle > 2 * 30 /\ armAngle <= 2 * 90 THEN 1
    ELSE IF armAngle >= 2 * 15 /\ armAngle < 2 * 30 THEN 2
    ELSE IF armAngle > 2 * 90 /\ armAngle <= 2 * 110 THEN 2
    ELSE IF armAngle >= 0 /\ armAngle < 2 * 15 THEN 3
    ELSE IF armAngle > 2 * 110 THEN 3
    ELSE 4

\* The bands of getUpperArmScore, on Ord of the arm angle
upperArmBand(armAngle) ==
    IF armAngle >= 2 * 30 /\ armAngle <= 2 * 90 THEN 1
    ELSE IF armAngle >= 2 * 15 /\ armAngle < 2 * 30 THEN 2
    ELSE IF armAngle > 2 * 90 /\ armAngle <= 2 * 110 THEN 2
    ELSE IF armAngle >= 0 /\ armAngle < 2 * 15 THEN 3
    ELSE IF armAngle > 2 * 110 THEN 3
    ELSE 4

\* getUpperArmScore with the default of the frontal variant (3) for a
\* missing landmark
getUpperArmScoreDefault3(l, cameraSide) ==
    LET p == getPrimaryLandmarks(l, cameraSide)
    IN  IF ~Has(p, "shoulder") \/ ~Has(p, "elbow") THEN Scored(3, <<>>)
        ELSE LET armAngle == calculateArmAngleFromDown(p["shoulder"], p["elbow"], cameraSide)
             IN  Scored(upperArmBand(armAngle), <<"Upper arm angle from vertical:">>)

getUpperArmScore(l, cameraSide) ==
    LET p == getPrimaryLandmarks(l, cameraSide)
    IN  IF ~Has(p, "shoulder") \/ ~Has(p, "elbow") THEN Scored(2, <<>>)
        ELSE LET armAngle == calculateArmAngleFromDown(p["shoulder"], p["elbow"], cameraSide)
             IN  Scored(upperArmBand(armAngle), <<"Upper arm angle from vertical:">>)

\* lowerArmBand with its second band open at 45 degrees
lowerArmBandOpen(elbowAngle) ==
    IF elbowAngle >= 2 * 60 /\ elbowAngle <= 2 * 120 THEN 1
    ELSE IF elbowAngle > 2 * 45 /\ elbowAngle < 2 * 60 THEN 2
    ELSE IF elbowAngle > 2 * 120 /\ elbowAngle <= 2 * 150 THEN 2
    ELSE 3

\* The bands of getLowerArmScore, on Ord of the elbow angle
lowerArmBand(elbowAngle) ==
    IF elbowAngle >= 2 * 60 /\ elbowAngle <= 2 * 120 THEN 1
    ELSE IF elbowAngle >= 2 * 45 /\ elbowAngle < 2 * 60 THEN 2
    ELSE IF elbowAngle > 2 * 120 /\ elbowAngle <= 2 * 150 THEN 2
    ELSE 3

getLowerArmScore(l, cameraSide) ==
    LET p == getPrimaryLandmarks(l, cameraSide)
    IN  IF ~Has(p, "shoulder") \/ ~Has(p, "elbow") \/ ~Has(p, "wrist") THEN Scored(2, <<>>)
        ELSE LET elbowAngle == calculateAngle(p["shoulder"], p["elbow"], p["wrist"])
             IN  Scored(lowerArmBand(elbowAngle), <<"Elbow bend angle:">>)

\* getWristScore reporting a bent wrist
getWristScoreBent == Scored(4, <<>>)

getWristScore == Scored(1, <<>>)

\* The bands of getNeckScore on forwardRatio = headForward / verticalDist,
\* for verticalDist > 0: the ratio against 0.15, 0.3 and 0.5
neckBand(headForward, verticalDist) ==
    IF 100 * headForward <= 15 * verticalDist THEN 1
    ELSE IF 10 * headForward <= 3 * verticalDist THEN 2
    ELSE IF 2 * headForward <= verticalDist THEN 3
    ELSE 4

\* getNeckScore with the default of the frontal variant (3) for a missing
\* landmark
getNeckScoreDefault3(l, cameraSide) ==
    LET p == getPrimaryLandmarks(l, cameraSide)
    IN  IF ~Has(p, "ear") \/ ~Has(p, "shoulder") THEN Scored(3, <<>>)
        ELSE LET ear == p["ear"]
                 shoulder == p["shoulder"]
                 verticalDist == Abs(shoulder.y - ear.y)
                 headForward == IF cameraSide = "left" THEN ear.x - shoulder.x
                                                       ELSE shoulder.x - ear.x
             IN  IF verticalDist = 0 THEN Scored(2, <<>>)
                 ELSE Scored(neckBand(headForward, verticalDist), <<>>)

\* getNeckScore taking the forward direction of a left-side camera when it
\* is handed no side
getNeckScoreUnknownAsLeft(l, cameraSide) ==
    LET p == getPrimaryLandmarks(l, cameraSide)
    IN  IF ~Has(p, "ear") \/ ~Has(p, "shoulder") THEN Scored(2, <<>>)
        ELSE LET ear == p["ear"]
                 shoulder == p["shoulder"]
                 verticalDist == Abs(shoulder.y - ear.y)
                 headForward == IF cameraSide # "right" THEN ear.x - shoulder.x
                                                        ELSE shoulder.x - ear.x
             IN  IF verticalDist = 0 THEN Scored(2, <<>>)
                 ELSE Scored(neckBand(headForward, verticalDist), <<>>)

getNeckScore(l, cameraSide) ==
    LET p == getPrimaryLandmarks(l, cameraSide)
    IN  IF ~Has(p, "ear") \/ ~Has(p, "shoulder") THEN Scored(2, <<>>)
        ELSE LET ear == p["ear"]
                 shoulder == p["shoulder"]
                 verticalDist == Abs(shoulder.y - ear.y)
                 headForward == IF cameraSide = "left" THEN ear.x - shoulder.x
                                                       ELSE shoulder.x - ear.x
             IN  IF verticalDist = 0 THEN Scored(2, <<>>)
                 ELSE Scored(neckBand(headForward, verticalDist), <<>>)

\* The bands of getTrunkScore, on Ord of the trunk angle
trunkBand(trunkAngle) ==
    IF trunkAngle >= 2 * (-25) /\ trunkAngle <= 2 * 20 THEN 1
    ELSE IF trunkAngle > 2 * 20 /\ trunkAngle <= 2 * 35 THEN 2
    ELSE IF trunkAngle < 2 * (-25) /\ trunkAngle >= 2 * (-40) THEN 2
    ELSE IF trunkAngle > 2 * 35 /\ trunkAngle <= 2 * 50 THEN 3
    ELSE 4

\* trunkAngleOf with the horizontal delta negated for a left-side camera
\* as well
trunkAngleFlipBoth(shoulder, hip, cameraSide) ==
    LET dx0 == shoulder.x - hip.x
        dy  == shoulder.y - hip.y
        flip == cameraSide = "right" \/ cameraSide = "left"
        dx  == IF flip THEN -dx0 ELSE dx0
    IN  Atan2Deg(dx, flip, -dy, TRUE)

\* Ord of the angle of hip->shoulder from the upward vertical
trunkAngleOf(shoulder, hip, cameraSide) ==
    LET dx0 == shoulder.x - hip.x
        dy  == shoulder.y - hip.y
        flip == cameraSide = "right"
        dx  == IF flip THEN -dx0 ELSE dx0
    IN  \* Math.atan2(dx, -dy): -dy is -0 when dy is 0
        Atan2Deg(dx, flip, -dy, TRUE)

getTrunkScore(l, cameraSide) ==
    LET p == getPrimaryLandmarks(l, cameraSide)
    IN  IF ~Has(p, "shoulder") \/ ~Has(p, "hip") THEN Scored(2, <<>>)
        ELSE LET trunkAngle == trunkAngleOf(p["shoulder"], p["hip"], cameraSide)
             IN  Scored(trunkBand(trunkAngle), <<"Trunk angle from vertical:">>)

----------------------------------------------------------------------------
(* RULA tables *)

\* tableA[wrist][lowerArm][upperArm]
tableA == <<
    << <<1, 2, 2, 2, 3>>, <<2, 2, 2, 2, 3>>, <<2, 3, 3, 3, 4>> >>,
    << <<2, 2, 2, 3, 3>>, <<2, 2, 2, 3, 3>>, <<2, 3, 3, 3, 4>> >>,
    << <<2, 3, 3, 3, 4>>, <<2, 3, 3, 3, 4>>, <<2, 3, 4, 4, 5>> >>,
    << <<3, 3, 3, 4, 4>>, <<3, 3, 3, 4, 4>>, <<3, 3, 4, 4, 5>> >> >>

\* tableB with one entry lowered: neck 4, trunk 4 gives 4 where the row and
\* the column hold 5 before it
tableBDip == <<
    <<1, 2, 3, 5, 7, 8>>,
    <<2, 2, 3, 5, 7, 8>>,
    <<3, 3, 3, 5, 7, 8>>,
    <<5, 5, 5, 4, 7, 8>>,
    <<7, 7, 7, 7, 7, 8>>,
    <<8, 8, 8, 8, 8, 8>> >>

\* tableB[neck][trunk]
tableB == <<
    <<1, 2, 3, 5, 7, 8>>,
    <<2, 2, 3, 5, 7, 8>>,
    <<3, 3, 3, 5, 7, 8>>,
    <<5, 5, 5, 6, 7, 8>>,
    <<7, 7, 7, 7, 7, 8>>,
    <<8, 8, 8, 8, 8, 8>> >>

\* tableC[scoreA][scoreB]
tableC == <<
    <<1, 2, 3, 3, 4, 5, 5>>,
    <<2, 2, 3, 4, 4, 5, 5>>,
    <<3, 3, 3, 4, 4, 5, 6>>,
    <<3, 3, 3, 4, 5, 6, 6>>,
    <<4, 4, 4, 5, 6, 7, 7>>,
    <<4, 4, 5, 6, 6, 7, 7>>,
    <<5, 5, 6, 6, 7, 7, 7>>,
    <<5, 5, 6, 7, 7, 7, 7>> >>

\* arr?.[i] with a 0-based index, for an array of arrays: the element, or
\* <<>> (undefined) when arr is undefined or i is outside it
At(arr, i) == IF i + 1 \in DOMAIN arr THEN arr[i + 1] ELSE <<>>

\* arr?.[i] || d for an array of numbers: the element when there is one and
\* it is not 0, else d
AtOr(arr, i, d) == IF i + 1 \in DOMAIN arr /\ arr[i + 1] # 0 THEN arr[i + 1] ELSE d

\* lookupA indexing with the scores themselves, 1 not subtracted
lookupANoOffset(wrist, lowerArm, upperArm) ==
    LET wristIdx    == Min(wrist, 3)
        lowerArmIdx == Min(lowerArm, 2)
        upperArmIdx == Min(upperArm, 4)
    IN  AtOr(At(At(tableA, wristIdx), lowerArmIdx), upperArmIdx, 3)

lookupA(wrist, lowerArm, upperArm) ==
    LET wristIdx    == Min(wrist - 1, 3)
        lowerArmIdx == Min(lowerArm - 1, 2)
        upperArmIdx == Min(upperArm - 1, 4)
    IN  AtOr(At(At(tableA, wristIdx), lowerArmIdx), upperArmIdx, 3)

\* lookupB with its indices clamped at 0 as well as at 5
lookupBClampedBelow(neck, trunk) ==
    LET neckIdx  == IF neck - 1 < 0 THEN 0 ELSE Min(neck - 1, 5)
        trunkIdx == IF trunk - 1 < 0 THEN 0 ELSE Min(trunk - 1, 5)
    IN  AtOr(At(tableB, neckIdx), trunkIdx, 4)

lookupB(neck, trunk) ==
    LET neckIdx  == Min(neck - 1, 5)
        trunkIdx == Min(trunk - 1, 5)
    IN  AtOr(At(tableB, neckIdx), trunkIdx, 4)

\* lookupC reading tableB where it should read tableC
lookupCFromB(scoreA, scoreB) ==
    AtOr(At(tableB, Min(scoreA - 1, 7)), Min(scoreB - 1, 6), 5)

lookupC(scoreA, scoreB) ==
    AtOr(At(tableC, Min(scoreA - 1, 7)), Min(scoreB - 1, 6), 5)

\* riskOf with < where the code has <=
riskOfStrict(finalScore) ==
    IF finalScore < 2 THEN "low"
    ELSE IF finalScore < 4 THEN "medium"
    ELSE IF finalScore < 6 THEN "high"
    ELSE "very-high"

riskOf(finalScore) ==
    IF finalScore <= 2 THEN "low"
    ELSE IF finalScore <= 4 THEN "medium"
    ELSE IF finalScore <= 6 THEN "high"
    ELSE "very-high"

----------------------------------------------------------------------------
(* Recommendations *)

AdviceUpperArm == "Adjust steering wheel height - arms should be relaxed at 9 and 3 position"

AdviceLowerArm == "Move seat closer/further - elbows should be slightly bent"

AdviceNeck == "Adjust headrest - keep head against it while looking at road"

AdviceTrunk == "Adjust seat recline - slight backward tilt reduces back strain"

AdviceWrist == "Relax grip on wheel - wrists should be straight, not bent"

Affirmative == "Excellent driving posture! Stay safe on the road!"

\* PushIf with > where the code has >=
PushIfStrict(score, text) == IF score > 3 THEN <<text>> ELSE <<>>

\* recommendations.push(text) when the joint's score is >= 3
PushIf(score, text) == IF score >= 3 THEN <<text>> ELSE <<>>

\* getRecommendations pushing the affirmative string whatever was pushed
\* before it
getRecommendationsAlways(scores) ==
    LET recommendations ==
            PushIf(scores.upperArm, AdviceUpperArm)
            \o PushIf(scores.lowerArm, AdviceLowerArm)
            \o PushIf(scores.neck, AdviceNeck)
            \o PushIf(scores.trunk, AdviceTrunk)
            \o PushIf(scores.wrist, AdviceWrist)
    IN  recommendations \o <<Affirmative>>

getRecommendations(scores) ==
    LET recommendations ==
            PushIf(scores.upperArm, AdviceUpperArm)
            \o PushIf(scores.lowerArm, AdviceLowerArm)
            \o PushIf(scores.neck, AdviceNeck)
            \o PushIf(scores.trunk, AdviceTrunk)
            \o PushIf(scores.wrist, AdviceWrist)
    IN  IF Len(recommendations) = 0 THEN <<Affirmative>> ELSE recommendations

----------------------------------------------------------------------------
(* The engine *)

\* calculateRULAScore keeping the camera side of the last published result
\* when it detects none
calculateRULAScoreSticky(l) ==
    LET cameraSide0 == detectCameraSide(l)
        cameraSide == IF cameraSide0 = "unknown" /\ rulaScores # Null
                      THEN rulaScores.cameraSide ELSE cameraSide0
        upperArm == getUpperArmScore(l, cameraSide)
        lowerArm == getLowerArmScore(l, cameraSide)
        wrist    == getWristScore
        neck     == getNeckScore(l, cameraSide)
        trunk    == getTrunkScore(l, cameraSide)
        scoreA   == lookupA(wrist.score, lowerArm.score, upperArm.score)
        scoreB   == lookupB(neck.score, trunk.score)
        finalScore == lookupC(scoreA, scoreB)
        joints   == [upperArm |-> upperArm.score, lowerArm |-> lowerArm.score,
                     wrist |-> wrist.score, neck |-> neck.score, trunk |-> trunk.score]
    IN  [returned |-> [upperArm |-> upperArm.score,
                       lowerArm |-> lowerArm.score,
                       wrist |-> wrist.score,
                       neck |-> neck.score,
                       trunk |-> trunk.score,
                       finalScore |-> finalScore,
                       risk |-> riskOf(finalScore),
                       recommendations |-> getRecommendations(joints),
                       cameraSide |-> cameraSide],
         logged |-> upperArm.log \o lowerArm.log \o wrist.log \o neck.log \o trunk.log]

\* What one calculateRULAScore(landmarks) call does: the RULAScores object
\* it returns and the console.log labels it writes, in order.
calculateRULAScore(l) ==
    LET cameraSide == detectCameraSide(l)
        upperArm == getUpperArmScore(l, cameraSide)
        lowerArm == getLowerArmScore(l, cameraSide)
        wrist    == getWristScore
        neck     == getNeckScore(l, cameraSide)
        trunk    == getTrunkScore(l, cameraSide)
        scoreA   == lookupA(wrist.score, lowerArm.score, upperArm.score)
        scoreB   == lookupB(neck.score, trunk.score)
        finalScore == lookupC(scoreA, scoreB)
        joints   == [upperArm |-> upperArm.score, lowerArm |-> lowerArm.score,
                     wrist |-> wrist.score, neck |-> neck.score, trunk |-> trunk.score]
    IN  [returned |-> [upperArm |-> upperArm.score,
                       lowerArm |-> lowerArm.score,
                       wrist |-> wrist.score,
                       neck |-> neck.score,
                       trunk |-> trunk.score,
                       finalScore |-> finalScore,
                       risk |-> riskOf(finalScore),
                       recommendations |-> getRecommendations(joints),
                       cameraSide |-> cameraSide],
         logged |-> upperArm.log \o lowerArm.log \o wrist.log \o neck.log \o trunk.log]

----------------------------------------------------------------------------
(* Inputs *)

\* The positions each slot draws from, in units of 1/20 of the frame, y
\* downwards: entry i of the left slots is one posture of a seated driver's
\* left side, entry i of the right slots one posture of the right side, and
\* entry i of "nose" one head position.
Pool ==
    [ nose          |-> << Pt(7, 7), Pt(11, 7), Pt(10, 6), Pt(13, 8) >>,
      leftShoulder  |-> << Pt(10, 10), Pt(9, 9), Pt(11, 10), Pt(8, 10) >>,
      rightShoulder |-> << Pt(12, 10), Pt(10, 10), Pt(9, 11), Pt(13, 9) >>,
      leftElbow     |-> << Pt(11, 13), Pt(7, 12), Pt(11, 6), Pt(8, 14) >>,
      rightElbow    |-> << Pt(14, 13), Pt(10, 13), Pt(12, 6), Pt(15, 10) >>,
      leftWrist     |-> << Pt(5, 11), Pt(11, 16), Pt(8, 15), Pt(4, 12) >>,
      rightWrist    |-> << Pt(16, 12), Pt(13, 16), Pt(14, 10), Pt(12, 13) >>,
      leftHip       |-> << Pt(10, 16), Pt(13, 15), Pt(6, 14), Pt(9, 16) >>,
      rightHip      |-> << Pt(11, 16), Pt(7, 14), Pt(16, 13), Pt(12, 17) >>,
      leftEar       |-> << Pt(10, 7), Pt(8, 7), Pt(9, 8), Pt(11, 6) >>,
      rightEar      |-> << Pt(12, 7), Pt(14, 8), Pt(11, 7), Pt(12, 6) >> ]

\* The snapshot with the slots of `present`, its left slots in posture
\* `left`, its right slots in posture `right`, its nose at position `head`
SnapshotOf(present, left, right, head) ==
    [s \in present |->
        IF s = "nose" THEN Pool[s][head]
        ELSE IF s \in LeftSlots THEN Pool[s][left]
        ELSE Pool[s][right]]

----------------------------------------------------------------------------
(* One scoring call on a drawn snapshot *)

\* The page before the camera is started: the initial values of the hook's and
\* the components' state
\* useRef(null) for the two refs, whose values are numbers here
NoRef == 0

HookIdle ==
    /\ isLoading = FALSE
    /\ error = Null
    /\ isDetecting = FALSE
    /\ poseLandmarkerRef = NoRef
    /\ animationFrameRef = NoRef
    /\ pending = {}
    /\ scheduled = {}
    /\ open = {}
    /\ starts = 0
    /\ stopped = FALSE
    /\ lastStep = [did |-> "mount", loop |-> 0]
    /\ frameParity = 0

HistoryIdle ==
    /\ currentScore = Null
    /\ history = <<>>
    /\ appended = <<>>

AlertIdle ==
    /\ scoresProp = Null
    /\ showAlert = FALSE
    /\ soundEnabled = TRUE
    /\ lastAlertTimeRef = 0
    /\ timers = {}
    /\ alertLog = <<>>

PageIdle == HookIdle /\ now = 0 /\ HistoryIdle /\ AlertIdle

Init ==
    /\ \E present \in SUBSET Slots, left \in 1..PoolSize, right \in 1..PoolSize,
          head \in 1..PoolSize :
            landmarks = SnapshotOf(present, left, right, head)
    /\ rulaScores = Null
    /\ console = <<>>
    /\ calls = <<>>
    /\ args = Null
    /\ result = Null
    /\ PageIdle

\* const scores = calculateRULAScore(extractedLandmarks); setRulaScores(scores)
Score ==
    /\ rulaScores = Null
    /\ LET call == calculateRULAScore(landmarks)
       IN  /\ rulaScores' = call.returned
           /\ console' = console \o call.logged
    /\ UNCHANGED <<landmarks, calls, args, result>>
    /\ UNCHANGED pageVars

Next == Score

Spec == Init /\ [][Next]_vars

----------------------------------------------------------------------------
(* A run of frames: each frame's snapshot is scored and published *)

\* The snapshots the frames of a run draw from
ProbePresence ==
    { {},
      {"leftShoulder", "leftElbow", "leftHip"},
      Slots,
      Slots \ {"nose"},
      RightSlots,
      LeftSlots \cup {"nose"},
      {"nose", "leftShoulder", "rightShoulder", "leftEar", "rightHip"} }

ProbeSnapshots ==
    {SnapshotOf(present, 1, 1, 1) : present \in ProbePresence}
    \cup {SnapshotOf(Slots, 2, 3, 2)}

InitRepeat ==
    /\ landmarks = Null
    /\ rulaScores = Null
    /\ console = <<>>
    /\ calls = <<>>
    /\ args = Null
    /\ result = Null
    /\ PageIdle

\* One pass of detectPose that finds a pose: setLandmarks(extractedLandmarks),
\* scores = calculateRULAScore(extractedLandmarks), setRulaScores(scores)
Frame(snapshot) ==
    /\ Len(calls) < MaxCalls
    /\ LET call == calculateRULAScore(snapshot)
       IN  /\ landmarks' = snapshot
           /\ rulaScores' = call.returned
           /\ console' = console \o call.logged
           /\ calls' = Append(calls, [input |-> snapshot, output |-> call.returned])
    /\ UNCHANGED <<args, result>>
    /\ UNCHANGED pageVars

NextRepeat == \E snapshot \in ProbeSnapshots : Frame(snapshot)

SpecRepeat == InitRepeat /\ [][NextRepeat]_vars

----------------------------------------------------------------------------
(* The table combiner and the recommendations, applied to joint scores of  *)
(* their own: the part of calculateRULAScore that follows the classifiers  *)

\* the largest joint score a run of SpecCombine draws
MaxJointScore == 7

Joints == {"upperArm", "lowerArm", "wrist", "neck", "trunk"}

\* What calculateRULAScore does with the five joint scores once it has
\* them: the three table lookups, the risk tier and the recommendations
combine(scores) ==
    LET scoreA == lookupA(scores.wrist, scores.lowerArm, scores.upperArm)
        scoreB == lookupB(scores.neck, scores.trunk)
        finalScore == lookupC(scoreA, scoreB)
    IN  [scoreA |-> scoreA,
         scoreB |-> scoreB,
         finalScore |-> finalScore,
         risk |-> riskOf(finalScore),
         recommendations |-> getRecommendations(scores)]

\* Joint scores from 0 (what `scores.joint || 0` makes of an absent joint)
\* to MaxJointScore
InitCombine ==
    /\ landmarks = Null
    /\ rulaScores = Null
    /\ console = <<>>
    /\ calls = <<>>
    /\ args \in [Joints -> 0..MaxJointScore]
    /\ result = Null
    /\ PageIdle

Combine ==
    /\ result = Null
    /\ result' = combine(args)
    /\ UNCHANGED <<landmarks, rulaScores, console, calls, args>>
    /\ UNCHANGED pageVars

NextCombine == Combine

SpecCombine == InitCombine /\ [][NextCombine]_vars

----------------------------------------------------------------------------
(* One classifier applied to a posture of its own, with the camera side it *)
(* is handed.  The postures lie on a grid in units of 1/32 of the frame,   *)
(* in which coordinate differences are exact in double precision.          *)

\* how far, in grid steps, a posture's moving point lies from the fixed one
Reach == 4

\* The left and the right slot of each part
LeftOf ==
    [shoulder |-> "leftShoulder", elbow |-> "leftElbow", wrist |-> "leftWrist",
     hip |-> "leftHip", ear |-> "leftEar"]

RightOf ==
    [shoulder |-> "rightShoulder", elbow |-> "rightElbow", wrist |-> "rightWrist",
     hip |-> "rightHip", ear |-> "rightEar"]

Centre == Pt(16, 16)

GridPoints ==
    {Pt(Centre.x + dx, Centre.y + dy) : dx \in -Reach..Reach, dy \in -Reach..Reach}

\* Where the shoulder lies in the postures that bend the elbow: straight
\* above the elbow, above and behind it, and on it
ShoulderPlaces == {Pt(16, 13), Pt(14, 14), Pt(16, 16)}

\* The postures, as functions from parts to points: the shoulder with an
\* elbow, a hip or an ear anywhere on the grid, and the elbow with a
\* shoulder and a wrist anywhere on the grid
Postures ==
    {[shoulder |-> Centre, elbow |-> q] : q \in GridPoints}
    \cup {[shoulder |-> Centre, hip |-> q] : q \in GridPoints}
    \cup {[shoulder |-> Centre, ear |-> q] : q \in GridPoints}
    \cup {[shoulder |-> sh, elbow |-> Centre, wrist |-> q] :
              sh \in ShoulderPlaces, q \in GridPoints}

\* The snapshot that holds the posture in the slots of one side
SnapshotOn(held, posture) ==
    LET slotOf == IF held = "left" THEN LeftOf ELSE RightOf
    IN  [s \in {slotOf[k] : k \in DOMAIN posture} |->
            posture[CHOOSE k \in DOMAIN posture : slotOf[k] = s]]

InitClassify ==
    /\ landmarks = Null
    /\ rulaScores = Null
    /\ console = <<>>
    /\ calls = <<>>
    /\ \E held \in {"left", "right"}, posture \in Postures,
          cameraSide \in {"left", "right", "unknown"} :
            args = [landmarks |-> SnapshotOn(held, posture), cameraSide |-> cameraSide]
    /\ result = Null
    /\ PageIdle

\* The call of one classifier: what it returns and what it logs
Returned(joint, scored) == [joint |-> joint, score |-> scored.score, log |-> scored.log]

ClassifyUpperArm ==
    /\ result = Null
    /\ result' = Returned("upperArm", getUpperArmScore(args.landmarks, args.cameraSide))
    /\ UNCHANGED <<landmarks, rulaScores, console, calls, args>>
    /\ UNCHANGED pageVars

ClassifyLowerArm ==
    /\ result = Null
    /\ result' = Returned("lowerArm", getLowerArmScore(args.landmarks, args.cameraSide))
    /\ UNCHANGED <<landmarks, rulaScores, console, calls, args>>
    /\ UNCHANGED pageVars

ClassifyNeck ==
    /\ result = Null
    /\ result' = Returned("neck", getNeckScore(args.landmarks, args.cameraSide))
    /\ UNCHANGED <<landmarks, rulaScores, console, calls, args>>
    /\ UNCHANGED pageVars

ClassifyTrunk ==
    /\ result = Null
    /\ result' = Returned("trunk", getTrunkScore(args.landmarks, args.cameraSide))
    /\ UNCHANGED <<landmarks, rulaScores, console, calls, args>>
    /\ UNCHANGED pageVars

NextClassify ==
    \/ ClassifyUpperArm
    \/ ClassifyLowerArm
    \/ ClassifyNeck
    \/ ClassifyTrunk

SpecClassify == InitClassify /\ [][NextClassify]_vars

----------------------------------------------------------------------------
(* Properties *)

Published == rulaScores # Null

\* C1: for every snapshot, the empty one included, the result that
\* calculateRULAScore returns has upperArm in 1..4, lowerArm in 1..3,
\* wrist = 1, neck in 1..4, trunk in 1..4 and a non-empty recommendations
\* list.  (A property read of an absent landmark, the one way the code could
\* throw, is an application outside a function's domain here, which stops
\* the model checker.)
C1_Totality ==
    Published =>
        /\ rulaScores.upperArm \in 1..4
        /\ rulaScores.lowerArm \in 1..3
        /\ rulaScores.wrist = 1
        /\ rulaScores.neck \in 1..4
        /\ rulaScores.trunk \in 1..4
        /\ Len(rulaScores.recommendations) > 0

\* A scored snapshot whose joints sit at the top of their ranges
C1_Witness ==
    /\ Published
    /\ rulaScores.upperArm = 4
    /\ rulaScores.lowerArm = 3
    /\ rulaScores.neck = 4
    /\ rulaScores.trunk = 4

\* C2: for every snapshot the finalScore returned is an integer in 1..7.
C2_FinalScoreRange == Published => rulaScores.finalScore \in 1..7

\* A scored snapshot with the largest final score the engine produces
C2_Witness == Published /\ rulaScores.finalScore = 5 /\ rulaScores.neck = 4

\* The step function of the risk tier, as the specification states it
StepRisk(finalScore) ==
    CASE finalScore \in 1..2 -> "low"
      [] finalScore \in 3..4 -> "medium"
      [] finalScore \in 5..6 -> "high"
      [] finalScore >= 7     -> "very-high"

\* C3: the risk of every result is the step function of its finalScore
\* (1-2 low, 3-4 medium, 5-6 high, 7 or more very-high), and the tier the
\* code assigns agrees with the step function on every entry of Table C.
C3_RiskStep ==
    /\ Published => rulaScores.risk = StepRisk(rulaScores.finalScore)
    /\ \A a \in DOMAIN tableC : \A b \in DOMAIN tableC[a] :
            riskOf(tableC[a][b]) = StepRisk(tableC[a][b])

\* A scored snapshot on a tier boundary: final score 4, still "medium"
C3_Witness == Published /\ rulaScores.finalScore = 4 /\ rulaScores.risk = "medium"

PresentAmong(slots) == Cardinality(DOMAIN landmarks \cap slots)

LeftCount ==
    PresentAmong({"leftShoulder", "leftElbow", "leftWrist", "leftHip", "leftEar"})

RightCount ==
    PresentAmong({"rightShoulder", "rightElbow", "rightWrist", "rightHip", "rightEar"})

\* C5: with the present landmarks counted among shoulder, elbow, wrist, hip
\* and ear on each side (the nose not counted), the camera side is "right"
\* when the left count is strictly greater and "left" when the right count
\* is strictly greater, whatever the coordinates.
C5_CountsDecide ==
    Published =>
        /\ LeftCount > RightCount => rulaScores.cameraSide = "right"
        /\ RightCount > LeftCount => rulaScores.cameraSide = "left"

\* The right side ahead by one landmark, with the nose present
C5_Witness ==
    /\ Published
    /\ LeftCount = 2
    /\ RightCount = 3
    /\ "nose" \in DOMAIN landmarks
    /\ rulaScores.cameraSide = "left"

NoseAndShoulders == {"nose", "leftShoulder", "rightShoulder"} \subseteq DOMAIN landmarks

\* C6: on a tie of the counts the camera side is "right" if nose and both
\* shoulders are present and nose.x is strictly less than the shoulder
\* midpoint x, "left" if they are present and nose.x is at or beyond the
\* midpoint, and "unknown" in every other tie (so for the empty snapshot);
\* "unknown" is returned only on a tie.
C6_TieBreak ==
    Published =>
        /\ LeftCount = RightCount =>
              rulaScores.cameraSide =
                 IF NoseAndShoulders
                 THEN IF 2 * landmarks["nose"].x
                           < landmarks["leftShoulder"].x + landmarks["rightShoulder"].x
                      THEN "right" ELSE "left"
                 ELSE "unknown"
        /\ DOMAIN landmarks = {} => rulaScores.cameraSide = "unknown"
        /\ rulaScores.cameraSide = "unknown" => LeftCount = RightCount

\* A tie with the nose exactly on the shoulder midpoint
C6_Witness ==
    /\ Published
    /\ LeftCount = RightCount
    /\ NoseAndShoulders
    /\ 2 * landmarks["nose"].x = landmarks["leftShoulder"].x + landmarks["rightShoulder"].x
    /\ rulaScores.cameraSide = "left"

\* The slot of the other side (the nose is its own)
OtherSide(slot) ==
    CASE slot = "leftShoulder"  -> "rightShoulder"
      [] slot = "rightShoulder" -> "leftShoulder"
      [] slot = "leftElbow"     -> "rightElbow"
      [] slot = "rightElbow"    -> "leftElbow"
      [] slot = "leftWrist"     -> "rightWrist"
      [] slot = "rightWrist"    -> "leftWrist"
      [] slot = "leftHip"       -> "rightHip"
      [] slot = "rightHip"      -> "leftHip"
      [] slot = "leftEar"       -> "rightEar"
      [] slot = "rightEar"      -> "leftEar"
      [] OTHER                  -> slot

\* The snapshot with every left/right pair of landmarks exchanged
Mirrored(l) == [s \in {OtherSide(t) : t \in DOMAIN l} |-> l[OtherSide(s)]]

OppositeSide(side) ==
    CASE side = "left" -> "right" [] side = "right" -> "left" [] OTHER -> side

\* C7 as stated: exchanging all left/right pairs turns the detected side
\* into its opposite, and "unknown" into "unknown", ties resolved by the
\* nose included.
C7_Original ==
    Published =>
        detectCameraSide(Mirrored(landmarks)) = OppositeSide(rulaScores.cameraSide)

\* C7 as the code has it: exchanging all left/right pairs turns the detected
\* side into its opposite when the counts differ, and leaves the result as
\* it is when the counts tie ("unknown" stays "unknown", and a side decided
\* by the nose against the shoulder midpoint stays that side).
C7_MirrorSymmetry ==
    Published =>
        detectCameraSide(Mirrored(landmarks)) =
            IF LeftCount # RightCount THEN OppositeSide(rulaScores.cameraSide)
                                      ELSE rulaScores.cameraSide

\* A tie decided by the nose, with the shoulders at different x
C7_Witness ==
    /\ Published
    /\ LeftCount = RightCount
    /\ NoseAndShoulders
    /\ landmarks["leftShoulder"].x # landmarks["rightShoulder"].x
    /\ rulaScores.cameraSide = "right"

\* C8: for the empty snapshot calculateRULAScore returns the fixed baseline:
\* cameraSide "unknown", upperArm 2, lowerArm 2, wrist 1, neck 2, trunk 2,
\* the finalScore the Table A/B/C lookups give for those defaults (2), risk
\* "low", and the single affirmative recommendation.
C8_EmptyBaseline ==
    (Published /\ DOMAIN landmarks = {}) =>
        /\ rulaScores =
              [upperArm |-> 2, lowerArm |-> 2, wrist |-> 1, neck |-> 2, trunk |-> 2,
               finalScore |-> 2, risk |-> "low",
               recommendations |-> <<"Excellent driving posture! Stay safe on the road!">>,
               cameraSide |-> "unknown"]
        \* rows and columns count from 1 here: tableA[wrist][lowerArm][upperArm]
        /\ rulaScores.finalScore = tableC[tableA[1][2][2]][tableB[2][2]]

\* The empty snapshot, scored
C8_Witness == Published /\ DOMAIN landmarks = {} /\ console = <<>>

\* The scenario of the specification: left shoulder (0.5, 0.5), left elbow
\* (0.55, 0.65), left hip (0.5, 0.8), everything else absent
ScenarioSnapshot ==
    [s \in {"leftShoulder", "leftElbow", "leftHip"} |->
        CASE s = "leftShoulder" -> Pt(10, 10)
          [] s = "leftElbow"    -> Pt(11, 13)
          [] s = "leftHip"      -> Pt(10, 16)]

\* C9 as stated: for the scenario snapshot the camera side is "right" and
\* the upper-arm score is the neutral 2.
C9_Original ==
    (Published /\ landmarks = ScenarioSnapshot) =>
        /\ rulaScores.cameraSide = "right"
        /\ rulaScores.upperArm = 2

\* C9 as the code has it: for the scenario snapshot the camera side is
\* "right" and the upper-arm score is 4: shoulder and elbow are both present,
\* so the angle is computed, and with the horizontal delta negated for a
\* right-side camera it is negative (about -18.4 degrees).  The lower arm,
\* whose wrist is absent, is the one that falls back to 2.
C9_Scenario ==
    (Published /\ landmarks = ScenarioSnapshot) =>
        /\ rulaScores.cameraSide = "right"
        /\ rulaScores.upperArm = 4
        /\ rulaScores.lowerArm = 2

\* The scenario snapshot, scored, its upper-arm angle computed
C9_Witness ==
    /\ Published
    /\ landmarks = ScenarioSnapshot
    /\ console = <<"Upper arm angle from vertical:", "Trunk angle from vertical:">>

\* Whether a console.log with the label was made
Logged(label) == \E i \in 1..Len(console) : console[i] = label

\* Whether the landmark is absent on both sides
Missing(left, right) == left \notin DOMAIN landmarks /\ right \notin DOMAIN landmarks

NoShoulder == Missing("leftShoulder", "rightShoulder")

NoElbow == Missing("leftElbow", "rightElbow")

NoWrist == Missing("leftWrist", "rightWrist")

NoHip == Missing("leftHip", "rightHip")

NoEar == Missing("leftEar", "rightEar")

\* C10: a classifier whose landmark is absent on both sides returns 2 and
\* computes no angle (it logs none): the upper arm without shoulder or
\* elbow, the lower arm without shoulder, elbow or wrist, the neck without
\* ear or shoulder, the trunk without shoulder or hip.
C10_MissingIsNeutral ==
    Published =>
        /\ (NoShoulder \/ NoElbow) =>
              rulaScores.upperArm = 2 /\ ~Logged("Upper arm angle from vertical:")
        /\ (NoShoulder \/ NoElbow \/ NoWrist) =>
              rulaScores.lowerArm = 2 /\ ~Logged("Elbow bend angle:")
        /\ (NoEar \/ NoShoulder) => rulaScores.neck = 2
        /\ (NoShoulder \/ NoHip) =>
              rulaScores.trunk = 2 /\ ~Logged("Trunk angle from vertical:")

\* The hip alone missing: the trunk falls back while the arm angles are
\* computed
C10_Witness ==
    /\ Published
    /\ NoHip /\ ~NoShoulder /\ ~NoElbow /\ ~NoWrist /\ ~NoEar
    /\ rulaScores.trunk = 2
    /\ console = <<"Upper arm angle from vertical:", "Elbow bend angle:">>

\* Whether the run of SpecCombine has applied the combiner
Combined == result # Null

\* The joints in the order the specification states, and their advisories
JointOrder == <<"upperArm", "lowerArm", "neck", "trunk", "wrist">>

AdvisoryOrder == <<AdviceUpperArm, AdviceLowerArm, AdviceNeck, AdviceTrunk, AdviceWrist>>

Occurrences(seq, x) == Cardinality({i \in 1..Len(seq) : seq[i] = x})

Corrective(text) == \E k \in 1..5 : AdvisoryOrder[k] = text

RankOf(text) == CHOOSE k \in 1..5 : AdvisoryOrder[k] = text

\* C11: the recommendations hold the advisory of a joint exactly once when
\* the joint's score is 3 or more and not at all when it is below 3, and
\* the advisories stand in the order upper arm, lower arm, neck, trunk,
\* wrist.
C11_Advisories ==
    Combined =>
        LET recs == result.recommendations
        IN  /\ \A k \in 1..5 :
                  Occurrences(recs, AdvisoryOrder[k]) =
                      IF args[JointOrder[k]] >= 3 THEN 1 ELSE 0
            /\ \A i \in 1..Len(recs) : \A j \in 1..Len(recs) :
                  (i < j /\ Corrective(recs[i]) /\ Corrective(recs[j]))
                      => RankOf(recs[i]) < RankOf(recs[j])

\* Upper arm, neck and wrist at 3 or more, lower arm and trunk below
C11_Witness ==
    /\ Combined
    /\ args.upperArm = 3 /\ args.lowerArm = 2 /\ args.neck = 4
    /\ args.trunk = 0 /\ args.wrist = 3
    /\ Len(result.recommendations) = 3

HasAffirmative ==
    \E i \in 1..Len(result.recommendations) : result.recommendations[i] = Affirmative

\* C12: the recommendations are never empty; they hold the affirmative
\* string if and only if no joint score is 3 or more, and then it is their
\* only element, so it never stands beside a corrective advisory.
C12_Affirmative ==
    Combined =>
        /\ Len(result.recommendations) > 0
        /\ HasAffirmative <=> (\A j \in Joints : args[j] < 3)
        /\ HasAffirmative => result.recommendations = <<Affirmative>>

\* Every joint below 3, two of them at 2
C12_Witness ==
    /\ Combined
    /\ args.upperArm = 2 /\ args.lowerArm = 1 /\ args.neck = 2
    /\ args.trunk = 1 /\ args.wrist = 1
    /\ HasAffirmative

\* The joint scores within their documented ranges
InRange ==
    /\ args.wrist \in 1..4
    /\ args.lowerArm \in 1..3
    /\ args.upperArm \in 1..4
    /\ args.neck \in 1..4
    /\ args.trunk \in 1..4

\* C14: for joint scores within their ranges (wrist 1..4, lower arm 1..3,
\* upper arm 1..4, neck 1..4, trunk 1..4) each of the three lookups is
\* inside its table and yields the entry stored there, which is not 0, so
\* none of the fallbacks 3, 4 and 5 is taken.  (Rows and columns count
\* from 1 here.)
C14_InBounds ==
    (Combined /\ InRange) =>
        /\ args.wrist \in DOMAIN tableA
        /\ args.lowerArm \in DOMAIN tableA[args.wrist]
        /\ args.upperArm \in DOMAIN tableA[args.wrist][args.lowerArm]
        /\ tableA[args.wrist][args.lowerArm][args.upperArm] # 0
        /\ result.scoreA = tableA[args.wrist][args.lowerArm][args.upperArm]
        /\ args.neck \in DOMAIN tableB
        /\ args.trunk \in DOMAIN tableB[args.neck]
        /\ tableB[args.neck][args.trunk] # 0
        /\ result.scoreB = tableB[args.neck][args.trunk]
        /\ result.scoreA \in DOMAIN tableC
        /\ result.scoreB \in DOMAIN tableC[result.scoreA]
        /\ tableC[result.scoreA][result.scoreB] # 0
        /\ result.finalScore = tableC[result.scoreA][result.scoreB]

\* Every joint at the top of its range
C14_Witness ==
    /\ Combined
    /\ args.wrist = 4 /\ args.lowerArm = 3 /\ args.upperArm = 4
    /\ args.neck = 4 /\ args.trunk = 4
    /\ result.finalScore = 6

Clamp(v, lo, hi) == IF v < lo THEN lo ELSE IF v > hi THEN hi ELSE v

\* C15 as stated: every joint score, below 1 as well as above its maximum,
\* is looked up at the nearest edge of its table.
C15_Original ==
    Combined =>
        /\ result.scoreA = tableA[Clamp(args.wrist, 1, 4)][Clamp(args.lowerArm, 1, 3)]
                                  [Clamp(args.upperArm, 1, 5)]
        /\ result.scoreB = tableB[Clamp(args.neck, 1, 6)][Clamp(args.trunk, 1, 6)]

\* C15 as the code has it: 1 is subtracted from each score and the index is
\* clamped at the top of its table only.  A score above the maximum is looked
\* up at the last row or column; a score below 1 gives a negative index, at
\* which the table holds nothing, and the lookup yields its fallback (3 for
\* Table A, 4 for Table B).  Table C is then read at scoreA and scoreB, which
\* are never below 1.
C15_ClampAbove ==
    Combined =>
        /\ result.scoreA =
              IF args.wrist < 1 \/ args.lowerArm < 1 \/ args.upperArm < 1 THEN 3
              ELSE tableA[Min(args.wrist, 4)][Min(args.lowerArm, 3)][Min(args.upperArm, 5)]
        /\ result.scoreB =
              IF args.neck < 1 \/ args.trunk < 1 THEN 4
              ELSE tableB[Min(args.neck, 6)][Min(args.trunk, 6)]
        /\ result.scoreA >= 1
        /\ result.scoreB >= 1
        /\ result.finalScore = tableC[Min(result.scoreA, 8)][Min(result.scoreB, 7)]

\* A neck score below 1 beside arm scores above their maxima
C15_Witness ==
    /\ Combined
    /\ args.neck = 0 /\ args.trunk = 1
    /\ args.wrist = 5 /\ args.lowerArm = 4 /\ args.upperArm = 6
    /\ result.scoreB = 4
    /\ result.scoreA = 5

\* The snapshot as a camera on the other side of the cab sees it: every x
\* replaced by 1 - x (20 - x in units of 1/20) and every left/right pair of
\* landmarks exchanged
MirrorX(l) ==
    [s \in {OtherSide(t) : t \in DOMAIN l} |->
        Pt(20 - l[OtherSide(s)].x, l[OtherSide(s)].y)]

\* The result of scoring the mirrored snapshot
MirrorScores == calculateRULAScore(MirrorX(landmarks)).returned

\* Whether the selected elbow is straight above the selected shoulder
ElbowOverhead ==
    LET p == getPrimaryLandmarks(landmarks, rulaScores.cameraSide)
    IN  /\ "shoulder" \in DOMAIN p
        /\ "elbow" \in DOMAIN p
        /\ p["elbow"].x = p["shoulder"].x
        /\ p["elbow"].y < p["shoulder"].y

\* C13: for every snapshot in which one side has strictly more present
\* landmarks than the other, the horizontally mirrored snapshot gets the
\* same upperArm, lowerArm, neck and trunk scores, the same finalScore and
\* the same risk.
C13_MirrorInvariant ==
    (Published /\ LeftCount # RightCount) =>
        /\ MirrorScores.upperArm = rulaScores.upperArm
        /\ MirrorScores.lowerArm = rulaScores.lowerArm
        /\ MirrorScores.neck = rulaScores.neck
        /\ MirrorScores.trunk = rulaScores.trunk
        /\ MirrorScores.finalScore = rulaScores.finalScore
        /\ MirrorScores.risk = rulaScores.risk

\* C13, what the code does keep: the mirrored snapshot gets the opposite
\* camera side and the same lowerArm, neck and trunk scores, and the same
\* upperArm score unless the elbow is straight above the shoulder; there the
\* negated horizontal delta of a right-side camera is -0, the arm angle is
\* -180 and the score 4, while a left-side camera gets 180 and the score 3.
C13_ExceptOverhead ==
    (Published /\ LeftCount # RightCount) =>
        /\ MirrorScores.cameraSide = OppositeSide(rulaScores.cameraSide)
        /\ MirrorScores.lowerArm = rulaScores.lowerArm
        /\ MirrorScores.neck = rulaScores.neck
        /\ MirrorScores.trunk = rulaScores.trunk
        /\ ~ElbowOverhead =>
              /\ MirrorScores.upperArm = rulaScores.upperArm
              /\ MirrorScores.finalScore = rulaScores.finalScore
              /\ MirrorScores.risk = rulaScores.risk
        /\ ElbowOverhead =>
              /\ rulaScores.upperArm = IF rulaScores.cameraSide = "right" THEN 4 ELSE 3
              /\ MirrorScores.upperArm = IF rulaScores.cameraSide = "right" THEN 3 ELSE 4

\* Left shoulder (0.55, 0.5) and left elbow (0.55, 0.3) alone: the upper
\* arm scores 4, and 3 in the mirrored snapshot
C13_Witness ==
    /\ Published
    /\ DOMAIN landmarks = {"leftShoulder", "leftElbow"}
    /\ landmarks["leftShoulder"] = Pt(11, 10)
    /\ landmarks["leftElbow"] = Pt(11, 6)
    /\ rulaScores.cameraSide = "right"
    /\ rulaScores.upperArm = 4
    /\ MirrorScores.upperArm = 3

\* The slot the specification has a classifier read for a part: the left
\* one for a right-side camera and the right one for a left-side camera,
\* the other one when that is absent
ExpectedSlot(part) ==
    LET first  == IF rulaScores.cameraSide = "right" THEN LeftOf[part] ELSE RightOf[part]
        second == IF rulaScores.cameraSide = "right" THEN RightOf[part] ELSE LeftOf[part]
    IN  IF first \in DOMAIN landmarks THEN first ELSE second

PartMissing(part) == Missing(LeftOf[part], RightOf[part])

\* C16: with the camera side "right" or "left", each of shoulder, elbow,
\* wrist, hip and ear is selected on its own: the left point for side
\* "right" and the right point for side "left", the other side's point when
\* that one is absent, and nothing only when both are absent; and the
\* scores are those of the selected points.
C16_Selection ==
    (Published /\ rulaScores.cameraSide \in {"left", "right"}) =>
        LET side == rulaScores.cameraSide
            p == getPrimaryLandmarks(landmarks, side)
            pt(part) == landmarks[ExpectedSlot(part)]
        IN  /\ \A part \in DOMAIN LeftOf :
                  /\ part \in DOMAIN p <=> ~PartMissing(part)
                  /\ part \in DOMAIN p => p[part] = pt(part)
            /\ (~PartMissing("shoulder") /\ ~PartMissing("elbow")) =>
                  rulaScores.upperArm =
                      upperArmBand(calculateArmAngleFromDown(pt("shoulder"), pt("elbow"), side))
            /\ (~PartMissing("shoulder") /\ ~PartMissing("elbow") /\ ~PartMissing("wrist")) =>
                  rulaScores.lowerArm =
                      lowerArmBand(calculateAngle(pt("shoulder"), pt("elbow"), pt("wrist")))
            /\ (~PartMissing("shoulder") /\ ~PartMissing("hip")) =>
                  rulaScores.trunk = trunkBand(trunkAngleOf(pt("shoulder"), pt("hip"), side))

\* A right-side camera whose ear is seen on the right side only and whose
\* hip is seen on neither side, the preferred left elbow beside a right one
C16_Witness ==
    /\ Published
    /\ rulaScores.cameraSide = "right"
    /\ "leftEar" \notin DOMAIN landmarks /\ "rightEar" \in DOMAIN landmarks
    /\ {"leftShoulder", "leftElbow", "rightElbow"} \subseteq DOMAIN landmarks
    /\ landmarks["leftElbow"] # landmarks["rightElbow"]
    /\ NoHip
    /\ rulaScores.neck # 2

\* Whether the run of SpecClassify has applied the classifier of the joint
Classified(joint) == result # Null /\ result.joint = joint

\* Whether the posture handed to the classifier holds the part, and where
HasPart(part) ==
    LeftOf[part] \in DOMAIN args.landmarks \/ RightOf[part] \in DOMAIN args.landmarks

PointOf(part) ==
    IF LeftOf[part] \in DOMAIN args.landmarks THEN args.landmarks[LeftOf[part]]
    ELSE args.landmarks[RightOf[part]]

\* Every Ord of an angle from -180 to 180 degrees
Ords == (-360)..360

\* The upper-arm bands as the specification states them, on Ord a
StatedUpperArm(a) ==
    CASE 2 * 30 <= a /\ a <= 2 * 90 -> 1
      [] (2 * 15 <= a /\ a < 2 * 30) \/ (2 * 90 < a /\ a <= 2 * 110) -> 2
      [] (0 <= a /\ a < 2 * 15) \/ a > 2 * 110 -> 3
      [] a < 0 -> 4

\* The bands of the code against the stated ones on every angle
UpperArmBandsAsStated ==
    \A a \in Ords :
        /\ upperArmBand(a) \in 1..4
        /\ upperArmBand(a) = 1 <=> (2 * 30 <= a /\ a <= 2 * 90)
        /\ upperArmBand(a) = 2 <=>
              ((2 * 15 <= a /\ a < 2 * 30) \/ (2 * 90 < a /\ a <= 2 * 110))
        /\ upperArmBand(a) = 3 <=> ((0 <= a /\ a < 2 * 15) \/ a > 2 * 110)
        /\ upperArmBand(a) = 4 <=> a < 0

LowerArmBandsAsStated ==
    \A e \in 0..360 :
        /\ lowerArmBand(e) \in 1..3
        /\ lowerArmBand(e) = 1 <=> (2 * 60 <= e /\ e <= 2 * 120)
        /\ lowerArmBand(e) = 2 <=>
              ((2 * 45 <= e /\ e < 2 * 60) \/ (2 * 120 < e /\ e <= 2 * 150))
        /\ lowerArmBand(e) = 3 <=> (e < 2 * 45 \/ e > 2 * 150)

\* C18: with e the interior angle at the elbow, in [0, 180], the lower-arm
\* score is 1 exactly when 60 <= e <= 120, 2 exactly when 45 <= e < 60 or
\* 120 < e <= 150, and 3 otherwise: on every angle exactly one band applies.
C18_LowerArmBands ==
    /\ LowerArmBandsAsStated
    /\ (Classified("lowerArm") /\ HasPart("shoulder") /\ HasPart("elbow")
            /\ HasPart("wrist")) =>
          LET v1x == PointOf("shoulder").x - PointOf("elbow").x
              v1y == PointOf("shoulder").y - PointOf("elbow").y
              v2x == PointOf("wrist").x - PointOf("elbow").x
              v2y == PointOf("wrist").y - PointOf("elbow").y
              dot == v1x * v2x + v1y * v2y
              cross == v1x * v2y - v1y * v2x
              inner == (v1x # 0 \/ v1y # 0) /\ (v2x # 0 \/ v2y # 0)
              e == AcosDeg(dot, cross)
          IN  /\ inner => e \in 0..360
              /\ inner =>
                    result.score =
                        IF 2 * 60 <= e /\ e <= 2 * 120 THEN 1
                        ELSE IF (2 * 45 <= e /\ e < 2 * 60) \/ (2 * 120 < e /\ e <= 2 * 150)
                             THEN 2
                        ELSE 3

\* The shoulder straight above the elbow and the wrist up and back at
\* exactly 45 degrees from it: the score is 2
C18_Witness ==
    /\ Classified("lowerArm")
    /\ HasPart("shoulder") /\ HasPart("elbow") /\ HasPart("wrist")
    /\ PointOf("shoulder") = Pt(16, 13)
    /\ PointOf("elbow") = Pt(16, 16)
    /\ PointOf("wrist") = Pt(13, 13)
    /\ result.score = 2

\* The bands of the code against the stated ones on every angle
TrunkBandsAsStated ==
    \A t \in Ords :
        /\ trunkBand(t) \in 1..4
        /\ trunkBand(t) = 1 <=> (2 * (-25) <= t /\ t <= 2 * 20)
        /\ trunkBand(t) = 2 <=>
              ((2 * 20 < t /\ t <= 2 * 35) \/ (2 * (-40) <= t /\ t < 2 * (-25)))
        /\ trunkBand(t) = 3 <=> (2 * 35 < t /\ t <= 2 * 50)
        /\ trunkBand(t) = 4 <=> (t < 2 * (-40) \/ t > 2 * 50)

\* C19: with t the angle of the hip-to-shoulder vector from the upward
\* vertical, its horizontal component negated exactly when the camera side
\* is "right", the trunk score is 1 exactly when -25 <= t <= 20, 2 exactly
\* when 20 < t <= 35 or -40 <= t < -25, 3 exactly when 35 < t <= 50, and 4
\* otherwise.
C19_TrunkBands ==
    /\ TrunkBandsAsStated
    /\ (Classified("trunk") /\ HasPart("shoulder") /\ HasPart("hip")) =>
          LET dx == PointOf("shoulder").x - PointOf("hip").x
              dy == PointOf("shoulder").y - PointOf("hip").y
              right == args.cameraSide = "right"
              t == Atan2Deg(IF right THEN -dx ELSE dx, right, -dy, TRUE)
          IN  result.score =
                  IF 2 * (-25) <= t /\ t <= 2 * 20 THEN 1
                  ELSE IF (2 * 20 < t /\ t <= 2 * 35) \/ (2 * (-40) <= t /\ t < 2 * (-25))
                       THEN 2
                  ELSE IF 2 * 35 < t /\ t <= 2 * 50 THEN 3
                  ELSE 4

\* A right-side camera and the shoulder up and to the left of the hip in the
\* image: a forward lean of about 37 degrees, scored 3 (a left-side camera
\* would read a recline)
C19_Witness ==
    /\ Classified("trunk")
    /\ args.cameraSide = "right"
    /\ HasPart("shoulder") /\ HasPart("hip")
    /\ PointOf("shoulder") = Pt(16, 16)
    /\ PointOf("hip") = Pt(19, 20)
    /\ result.score = 3

\* The neck bands as the specification states them, on the ratio
\* headForward / verticalDist with verticalDist > 0
StatedNeck(headForward, verticalDist) ==
    CASE 20 * headForward <= 3 * verticalDist -> 1
      [] 20 * headForward > 3 * verticalDist /\ 10 * headForward <= 3 * verticalDist -> 2
      [] 10 * headForward > 3 * verticalDist /\ 2 * headForward <= verticalDist -> 3
      [] 2 * headForward > verticalDist -> 4

\* The bands of the code against the stated ones on every ratio of twentieths
NeckBandsAsStated ==
    \A headForward \in (-20)..20 : \A verticalDist \in 1..20 :
        neckBand(headForward, verticalDist) = StatedNeck(headForward, verticalDist)

\* C20: with r = headForward / |shoulder.y - ear.y|, where headForward is
\* ear.x - shoulder.x for camera side "left" and shoulder.x - ear.x for any
\* other side, the neck score is 1 when r <= 0.15, 2 when 0.15 < r <= 0.3, 3
\* when 0.3 < r <= 0.5 and 4 when r > 0.5; with a vertical distance of zero
\* the score is 2.
C20_NeckRatio ==
    /\ NeckBandsAsStated
    /\ (Classified("neck") /\ HasPart("shoulder") /\ HasPart("ear")) =>
          LET verticalDist == Abs(PointOf("shoulder").y - PointOf("ear").y)
              headForward ==
                  IF args.cameraSide = "left"
                  THEN PointOf("ear").x - PointOf("shoulder").x
                  ELSE PointOf("shoulder").x - PointOf("ear").x
          IN  result.score =
                  IF verticalDist = 0 THEN 2 ELSE StatedNeck(headForward, verticalDist)

\* No camera side and the ear one step ahead of the shoulder and two above
\* it: the ratio is exactly 0.5 and the score 3
C20_Witness ==
    /\ Classified("neck")
    /\ args.cameraSide = "unknown"
    /\ HasPart("shoulder") /\ HasPart("ear")
    /\ PointOf("shoulder") = Pt(16, 16)
    /\ PointOf("ear") = Pt(15, 14)
    /\ result.score = 3

\* C21: when the elbow coincides with the shoulder or with the wrist,
\* calculateAngle returns 0 and the lower-arm classifier, which logs that
\* angle, returns the score its bands give to 0, which is 3.
C21_DegenerateElbow ==
    (Classified("lowerArm") /\ HasPart("shoulder") /\ HasPart("elbow") /\ HasPart("wrist")
        /\ (PointOf("shoulder") = PointOf("elbow") \/ PointOf("wrist") = PointOf("elbow"))) =>
        /\ calculateAngle(PointOf("shoulder"), PointOf("elbow"), PointOf("wrist")) = 0
        /\ lowerArmBand(0) = 3
        /\ result.score = 3
        /\ result.log = <<"Elbow bend angle:">>

\* The wrist on the elbow, the shoulder straight above them
C21_Witness ==
    /\ Classified("lowerArm")
    /\ HasPart("shoulder") /\ HasPart("elbow") /\ HasPart("wrist")
    /\ PointOf("shoulder") = Pt(16, 13)
    /\ PointOf("elbow") = Pt(16, 16)
    /\ PointOf("wrist") = Pt(16, 16)
    /\ result.score = 3

\* The most each joint score may be, as the specification documents it
JointMax == [upperArm |-> 4, lowerArm |-> 3, wrist |-> 4, neck |-> 4, trunk |-> 4]

\* The rank of a risk tier
TierRank(risk) ==
    CASE risk = "low" -> 1
      [] risk = "medium" -> 2
      [] risk = "high" -> 3
      [] risk = "very-high" -> 4

\* C24: with the joint scores in their documented ranges, raising one of
\* them by a step within its range, the others held, lowers none of scoreA,
\* scoreB and finalScore and moves the risk to no lower tier.
C24_Monotonic ==
    (Combined /\ InRange) =>
        \A j \in Joints :
            args[j] < JointMax[j] =>
                LET raised == combine([args EXCEPT ![j] = @ + 1])
                IN  /\ raised.scoreA >= result.scoreA
                    /\ raised.scoreB >= result.scoreB
                    /\ raised.finalScore >= result.finalScore
                    /\ TierRank(raised.risk) >= TierRank(result.risk)

\* Scores whose neck, raised from 3 to 4, lifts the final score and the tier
C24_Witness ==
    /\ Combined
    /\ InRange
    /\ args.neck = 3 /\ args.trunk = 4 /\ args.wrist = 1
    /\ combine([args EXCEPT !["neck"] = 4]).finalScore > result.finalScore
    /\ TierRank(combine([args EXCEPT !["neck"] = 4]).risk) > TierRank(result.risk)

\* With the wrist at 1, every choice of the other joint scores in their
\* ranges gives a final score of at most 5, and 5 only for neck 4, trunk 4
WristOneCapsFinal ==
    \A ua \in 1..4 : \A la \in 1..3 : \A n \in 1..4 : \A t \in 1..4 :
        LET out == combine([upperArm |-> ua, lowerArm |-> la, wrist |-> 1,
                            neck |-> n, trunk |-> t])
        IN  /\ out.finalScore <= 5
            /\ out.risk # "very-high"
            /\ out.risk = "high" => (n = 4 /\ t = 4)

\* C25: the wrist score being 1, the final score of every snapshot is at
\* most 5, so the risk is never "very-high", and it is "high" only when the
\* neck and the trunk both score 4.
C25_FinalAtMostFive ==
    /\ WristOneCapsFinal
    /\ Published =>
          /\ rulaScores.wrist = 1
          /\ rulaScores.finalScore <= 5
          /\ rulaScores.risk # "very-high"
          /\ rulaScores.risk = "high" => (rulaScores.neck = 4 /\ rulaScores.trunk = 4)

\* A snapshot scored "high", every other joint at the top of its range
C25_Witness ==
    /\ Published
    /\ rulaScores.risk = "high"
    /\ rulaScores.finalScore = 5
    /\ rulaScores.upperArm = 4 /\ rulaScores.lowerArm = 3

\* The upper-arm, trunk and neck scores of the selected landmarks when the
\* driver is taken to face the left of the image (negated: the horizontal
\* deltas of arm and trunk negated, the neck displacement shoulder.x - ear.x)
\* or its right (the deltas as they are, the displacement ear.x - shoulder.x)
ScoresFacing(negated) ==
    LET p == getPrimaryLandmarks(landmarks, rulaScores.cameraSide)
        turned(dx) == IF negated THEN -dx ELSE dx
    IN  [upperArm |->
            IF "shoulder" \in DOMAIN p /\ "elbow" \in DOMAIN p
            THEN upperArmBand(Atan2Deg(turned(p["elbow"].x - p["shoulder"].x), negated,
                                       p["elbow"].y - p["shoulder"].y, FALSE))
            ELSE 2,
         trunk |->
            IF "shoulder" \in DOMAIN p /\ "hip" \in DOMAIN p
            THEN trunkBand(Atan2Deg(turned(p["shoulder"].x - p["hip"].x), negated,
                                    -(p["shoulder"].y - p["hip"].y), TRUE))
            ELSE 2,
         neck |->
            IF "shoulder" \in DOMAIN p /\ "ear" \in DOMAIN p
                 /\ p["shoulder"].y # p["ear"].y
            THEN neckBand(turned(p["ear"].x - p["shoulder"].x),
                          Abs(p["shoulder"].y - p["ear"].y))
            ELSE 2]

\* C29: within one calculateRULAScore call one forward direction accounts
\* for the upper-arm, the trunk and the neck score: the neck displacement is
\* shoulder.x - ear.x exactly when the horizontal deltas of upper arm and
\* trunk are negated, whatever the camera side, "unknown" included.
C29_OneForward ==
    Published =>
        \E negated \in BOOLEAN :
            /\ rulaScores.upperArm = ScoresFacing(negated).upperArm
            /\ rulaScores.trunk = ScoresFacing(negated).trunk
            /\ rulaScores.neck = ScoresFacing(negated).neck

\* C29, what the code does: upper arm and trunk negate their horizontal
\* delta for camera side "right" only, while the neck takes ear.x -
\* shoulder.x for "left" only; for "left" and for "right" the three agree,
\* for "unknown" arm and trunk face the right of the image and the neck its
\* left.
C29_ForwardPerSide ==
    Published =>
        /\ rulaScores.upperArm = ScoresFacing(rulaScores.cameraSide = "right").upperArm
        /\ rulaScores.trunk = ScoresFacing(rulaScores.cameraSide = "right").trunk
        /\ rulaScores.neck = ScoresFacing(rulaScores.cameraSide # "left").neck

\* No camera side detected, and neither direction accounts for both the
\* upper-arm and the neck score
C29_Witness ==
    /\ Published
    /\ rulaScores.cameraSide = "unknown"
    /\ DOMAIN landmarks = {"leftShoulder", "leftEar", "rightElbow", "rightHip"}
    /\ rulaScores.upperArm # ScoresFacing(TRUE).upperArm
    /\ rulaScores.neck # ScoresFacing(FALSE).neck

----------------------------------------------------------------------------
(* PostureHistory: the panel that keeps the recent final scores.  The      *)
(* clock counts the updates of the prop.                                   *)

\* The updates of one run, and how many of them may append nothing
MaxUpdates == 22
MaxSkips == 2

\* newHistory.slice(-20) keeps this many entries
HistoryCap == 20

\* The final scores the prop takes in a run
HistoryScores == {3, 5}

EngineIdle ==
    /\ landmarks = Null
    /\ rulaScores = Null
    /\ console = <<>>
    /\ calls = <<>>
    /\ args = Null
    /\ result = Null

\* Array.prototype.slice(-n) of a sequence
sliceLast(s, n) ==
    IF Len(s) <= n THEN s ELSE SubSeq(s, Len(s) - n + 1, Len(s))

keepRecentOldest(newHistory) ==
    IF Len(newHistory) <= HistoryCap THEN newHistory
    ELSE SubSeq(newHistory, 1, HistoryCap)

\* return newHistory.slice(-20)
keepRecent(newHistory) == sliceLast(newHistory, HistoryCap)

\* The dependency of the effect, currentScore?.finalScore, is the same for
\* two values of the prop: undefined twice, or the same number
sameFinalScore(a, b) ==
    IF a = Null \/ b = Null THEN a = Null /\ b = Null
    ELSE a.finalScore = b.finalScore

InitHistory ==
    /\ EngineIdle
    /\ HookIdle
    /\ now = 0
    /\ HistoryIdle
    /\ AlertIdle

\* The prop changes and the component renders again; the effect runs when
\* currentScore?.finalScore differs from the render before, returns at once
\* on a null score, and otherwise appends an entry and keeps the last 20
ScoreUpdate(next) ==
    /\ now < MaxUpdates
    /\ now' = now + 1
    /\ currentScore' = next
    /\ IF sameFinalScore(next, currentScore) \/ next = Null
       THEN /\ now - Len(appended) < MaxSkips
            /\ UNCHANGED <<history, appended>>
       ELSE LET entry == [timestamp |-> now', score |-> next.finalScore,
                          risk |-> next.risk]
            IN  /\ history' = keepRecent(Append(history, entry))
                /\ appended' = Append(appended, entry)
    /\ UNCHANGED <<engineVars, hookVars, alertVars>>

NextHistory ==
    \E next \in {Null} \cup {[finalScore |-> f, risk |-> riskOf(f)] : f \in HistoryScores} :
        ScoreUpdate(next)

SpecHistory == InitHistory /\ [][NextHistory]_vars

\* C23: after any sequence of score updates the history holds at most 20
\* entries, and they are the entries appended last, in the order they
\* arrived: the oldest is dropped when a 21st is appended.
C23_RecentTwenty ==
    /\ Len(history) <= 20
    /\ Len(history) = Min(Len(appended), 20)
    /\ \A i \in 1..Len(history) :
          history[i] = appended[Len(appended) - Len(history) + i]

\* A 21st entry has been appended and the oldest one is gone
C23_Witness ==
    /\ Len(appended) = 21
    /\ Len(history) = 20
    /\ history[1] = appended[2]
    /\ history[1].timestamp > 1

----------------------------------------------------------------------------
(* PostureAlert: the banner and the sound.  The clock is Date.now() in     *)
(* units of 1000 ms; a timer fires when it is due.                         *)

\* The last instant of a run
MaxTime == 16

\* now - lastAlertTimeRef.current > 5000
AlertGap == 5

\* setTimeout(() => setShowAlert(false), 4000)
HideDelay == 4

\* The values of the prop: null or scores with one of these risks
AlertRisks == {"low", "high", "very-high"}

AlertProps == {Null} \cup {[risk |-> r] : r \in AlertRisks}

\* const shouldAlert = scores.risk === 'high' || scores.risk === 'very-high'
shouldAlertOf(s) == s.risk = "high" \/ s.risk = "very-high"

throttleOpenShort(t, last) == t - last > AlertGap - 2

\* now - lastAlertTimeRef.current > 5000
throttleOpen(t, last) == t - last > AlertGap

playAlertSoundAlways(enabled, audio) ==
    [played |-> audio, logged |-> IF audio THEN <<>> ELSE <<"Audio not available">>]

\* playAlertSound: nothing when the sound is off; otherwise the tone plays,
\* or the audio calls throw and the catch logs
playAlertSound(enabled, audio) ==
    IF ~enabled THEN [played |-> FALSE, logged |-> <<>>]
    ELSE IF audio THEN [played |-> TRUE, logged |-> <<>>]
    ELSE [played |-> FALSE, logged |-> <<"Audio not available">>]

\* config is non-null for 'high' and 'very-high' only; the banner is rendered
\* when showAlert && config
bannerVisible ==
    /\ showAlert
    /\ scoresProp # Null
    /\ (scoresProp.risk = "high" \/ scoresProp.risk = "very-high")

\* Date.now() at mount is far more than 5000 ms after the epoch, where
\* lastAlertTimeRef starts
InitAlert ==
    /\ EngineIdle
    /\ HookIdle
    /\ now = AlertGap + 1
    /\ HistoryIdle
    /\ AlertIdle

\* The effect of lines 46-59, run after a render that sees the prop s and
\* the sound switch enabled
AlertEffect(s, enabled, audio) ==
    IF s # Null /\ shouldAlertOf(s) /\ throttleOpen(now, lastAlertTimeRef)
    THEN LET sound == playAlertSound(enabled, audio)
         IN  /\ showAlert' = TRUE
             /\ console' = console \o sound.logged
             /\ lastAlertTimeRef' = now
             /\ timers' = timers \cup {now + HideDelay}
             /\ alertLog' = Append(alertLog,
                    [at |-> now, risk |-> scoresProp'.risk,
                     enabled |-> soundEnabled', sound |-> sound.played])
    ELSE UNCHANGED <<showAlert, console, lastAlertTimeRef, timers, alertLog>>

\* A new scores object arrives: the component renders and the effect runs
AlertScores(next, audio) ==
    /\ scoresProp' = next
    /\ UNCHANGED soundEnabled
    /\ AlertEffect(next, soundEnabled, audio)
    /\ UNCHANGED <<landmarks, rulaScores, calls, args, result>>
    /\ UNCHANGED <<hookVars, now, historyVars>>

\* onClick={() => setSoundEnabled(!soundEnabled)}: the component renders and
\* the effect, which depends on soundEnabled, runs
ToggleSound(audio) ==
    /\ soundEnabled' = ~soundEnabled
    /\ UNCHANGED scoresProp
    /\ AlertEffect(scoresProp, ~soundEnabled, audio)
    /\ UNCHANGED <<landmarks, rulaScores, calls, args, result>>
    /\ UNCHANGED <<hookVars, now, historyVars>>

\* () => setShowAlert(false), when its 4000 ms are over
HideTimer ==
    /\ now \in timers
    /\ timers' = timers \ {now}
    /\ showAlert' = FALSE
    /\ UNCHANGED <<engineVars, hookVars, now, historyVars>>
    /\ UNCHANGED <<scoresProp, soundEnabled, lastAlertTimeRef, alertLog>>

\* Time passes, once the timers that are due have fired
Tick ==
    /\ now < MaxTime
    /\ now \notin timers
    /\ now' = now + 1
    /\ UNCHANGED <<engineVars, hookVars, historyVars, alertVars>>

NextAlert ==
    \/ \E next \in AlertProps, audio \in BOOLEAN : AlertScores(next, audio)
    \/ \E audio \in BOOLEAN : ToggleSound(audio)
    \/ HideTimer
    \/ Tick

SpecAlert == InitAlert /\ [][NextAlert]_vars

\* C28: an alert is triggered only while the current risk is 'high' or
\* 'very-high', two consecutive alerts are more than 5000 ms apart, and no
\* alert plays the sound while soundEnabled is false, whatever the sequence
\* of score updates and clicks on the sound switch.
C28_Throttled ==
    /\ \A i \in 1..Len(alertLog) :
          /\ alertLog[i].risk \in {"high", "very-high"}
          /\ alertLog[i].sound => alertLog[i].enabled
    /\ \A i \in 1..(Len(alertLog) - 1) :
          alertLog[i + 1].at - alertLog[i].at > 5

\* Two alerts as close as the throttle lets them be: the first with its
\* sound, the second silent because the sound had been switched off
C28_Witness ==
    /\ Len(alertLog) = 2
    /\ alertLog[2].at - alertLog[1].at = 6
    /\ alertLog[1].sound
    /\ ~alertLog[2].enabled
    /\ ~alertLog[2].sound

\* C30: showAlert stays true for the 4000 ms that follow every alert (the
\* hide timer of an earlier alert does not cut a later one short), it is
\* false once the 4000 ms of the latest alert are over and that alert's timer
\* has fired, and the banner is visible only while showAlert is true and the
\* current risk is 'high' or 'very-high'.
C30_Display ==
    /\ \A i \in 1..Len(alertLog) :
          /\ now < alertLog[i].at + 4 => showAlert
          /\ now > alertLog[i].at + 4 => (alertLog[i].at + 4) \notin timers
    /\ (alertLog # <<>> /\ now > alertLog[Len(alertLog)].at + 4) => ~showAlert
    /\ bannerVisible =>
          /\ showAlert
          /\ scoresProp # Null
          /\ scoresProp.risk \in {"high", "very-high"}

\* A second alert is on display, after the timer of the first has fired,
\* and one with showAlert still true while the risk is back to low
C30_Witness ==
    /\ Len(alertLog) = 2
    /\ now = alertLog[2].at + 3
    /\ showAlert
    /\ scoresProp # Null
    /\ scoresProp.risk = "low"
    /\ ~bannerVisible

----------------------------------------------------------------------------
(* usePoseDetection: startDetection, the detectPose loop and               *)
(* stopDetection.  A startDetection call, its landmarker and its loop      *)
(* carry the number of the call; the id of an animation-frame request is   *)
(* the number of the loop that made it (a loop has one request at a time). *)
(* The console shows the lines of the latest scoring call.                 *)

\* The startDetection calls of one run
MaxStarts == 2

\* What detectForVideo finds in a frame that holds a pose
DetectSnapshots == {SnapshotOf(Slots, 1, 1, 1), SnapshotOf(Slots, 2, 3, 2)}

\* What one pass of detectPose does: nothing (no landmarker, or the video is
\* paused), nothing (the timestamp of the pass before), detectForVideo or
\* the scoring throws, no pose in the frame, or a pose that is published
Outcomes == {"idle", "sameTime", "threw", "noPose", "pose"}

InitErrorMessage == "Failed to initialize pose detection. Please refresh and try again."

InitDetect ==
    /\ EngineIdle
    /\ HookIdle
    /\ now = 0
    /\ HistoryIdle
    /\ AlertIdle

DetectPoseThrowEndsLoop(k, outcome, snapshot) ==
    /\ IF outcome = "pose"
       THEN LET call == calculateRULAScore(snapshot)
            IN  /\ landmarks' = snapshot
                /\ rulaScores' = call.returned
                /\ console' = call.logged
       ELSE UNCHANGED <<landmarks, rulaScores, console>>
    /\ IF outcome = "threw"
       THEN /\ scheduled' = scheduled \ {k}
            /\ UNCHANGED animationFrameRef
       ELSE /\ scheduled' = scheduled \cup {k}
            /\ animationFrameRef' = k
    /\ lastStep' = [did |-> outcome, loop |-> k]

\* One pass of detectPose in loop k (lines 88-116): the frame is processed
\* inside the try, and whatever happened the next animation frame is
\* requested and its id stored
DetectPose(k, outcome, snapshot) ==
    /\ IF outcome = "pose"
       THEN LET call == calculateRULAScore(snapshot)
            IN  /\ landmarks' = snapshot
                /\ rulaScores' = call.returned
                /\ console' = call.logged
       ELSE UNCHANGED <<landmarks, rulaScores, console>>
    /\ scheduled' = scheduled \cup {k}
    /\ animationFrameRef' = k
    /\ lastStep' = [did |-> outcome, loop |-> k]

\* startDetection up to its first await
StartDetection ==
    /\ starts < MaxStarts
    /\ starts' = starts + 1
    /\ isLoading' = TRUE
    /\ error' = Null
    /\ pending' = pending \cup {starts + 1}
    /\ stopped' = FALSE
    /\ lastStep' = [did |-> "start", loop |-> starts + 1]
    /\ UNCHANGED <<engineVars, now, historyVars, alertVars>>
    /\ UNCHANGED <<isDetecting, poseLandmarkerRef, animationFrameRef, scheduled,
                   open, frameParity>>

\* The awaits of call c are over: the landmarker is stored, the flags are
\* set and detectPose runs for the first time
InitDone(c, outcome, snapshot) ==
    /\ c \in pending
    /\ outcome \in Outcomes \ {"sameTime"}
    /\ pending' = pending \ {c}
    /\ open' = open \cup {c}
    /\ poseLandmarkerRef' = c
    /\ isLoading' = FALSE
    /\ isDetecting' = TRUE
    /\ DetectPose(c, outcome, snapshot)
    /\ UNCHANGED <<calls, args, result, now, historyVars, alertVars>>
    /\ UNCHANGED <<error, starts, stopped, frameParity>>

\* One of the awaits of call c rejects
InitFail(c) ==
    /\ c \in pending
    /\ pending' = pending \ {c}
    /\ error' = [message |-> InitErrorMessage]
    /\ isLoading' = FALSE
    /\ lastStep' = [did |-> "initFailed", loop |-> c]
    /\ UNCHANGED <<engineVars, now, historyVars, alertVars>>
    /\ UNCHANGED <<isDetecting, poseLandmarkerRef, animationFrameRef, scheduled,
                   open, starts, stopped, frameParity>>

\* The browser runs the animation-frame callback of loop k
FrameCallback(k, outcome, snapshot) ==
    /\ k \in scheduled
    /\ poseLandmarkerRef = NoRef => outcome = "idle"
    /\ frameParity' = 1 - frameParity
    /\ DetectPose(k, outcome, snapshot)
    /\ UNCHANGED <<calls, args, result, now, historyVars, alertVars>>
    /\ UNCHANGED <<isLoading, error, isDetecting, poseLandmarkerRef, pending,
                   open, starts, stopped>>

\* stopDetection (lines 123-135); also the cleanup of the unmount effect
StopDetection ==
    /\ scheduled' = IF animationFrameRef # NoRef
                     THEN scheduled \ {animationFrameRef} ELSE scheduled
    /\ animationFrameRef' = NoRef
    /\ open' = IF poseLandmarkerRef # NoRef
                THEN open \ {poseLandmarkerRef} ELSE open
    /\ poseLandmarkerRef' = NoRef
    /\ isDetecting' = FALSE
    /\ rulaScores' = Null
    /\ landmarks' = Null
    /\ stopped' = TRUE
    /\ lastStep' = [did |-> "stop", loop |-> 0]
    /\ UNCHANGED <<console, calls, args, result, now, historyVars, alertVars>>
    /\ UNCHANGED <<isLoading, error, pending, starts, frameParity>>

RunFrame ==
    \E k \in 1..MaxStarts, outcome \in Outcomes, snapshot \in DetectSnapshots :
        FrameCallback(k, outcome, snapshot)

NextDetect ==
    \/ StartDetection
    \/ \E c \in 1..MaxStarts, outcome \in Outcomes, snapshot \in DetectSnapshots :
          InitDone(c, outcome, snapshot)
    \/ \E c \in 1..MaxStarts : InitFail(c)
    \/ RunFrame
    \/ StopDetection

SpecDetect == InitDetect /\ [][NextDetect]_vars

\* The browser keeps running the animation-frame callbacks that are requested
SpecDetectFair == SpecDetect /\ WF_vars(RunFrame)

\* C22: when detection or scoring throws while a frame is processed, the
\* exception is swallowed and the next animation frame is requested all the
\* same; and from there another animation-frame callback always runs in the
\* end, unless stopDetection is called.
C22_Resilient ==
    /\ [](lastStep.did = "threw" => lastStep.loop \in scheduled)
    /\ (lastStep.did = "threw" /\ frameParity = 0) ~> (frameParity = 1 \/ stopped)
    /\ (lastStep.did = "threw" /\ frameParity = 1) ~> (frameParity = 0 \/ stopped)

\* An animation-frame callback has thrown and its loop has the next frame
\* requested
C22_Witness ==
    /\ lastStep.did = "threw"
    /\ frameParity = 1
    /\ lastStep.loop \in scheduled
    /\ animationFrameRef = lastStep.loop

\* C26: once stopDetection has been called, and until startDetection is
\* called again, nothing is published: isDetecting is false and rulaScores
\* and landmarks are null, a stop during the initialisation included.
C26_QuietAfterStop ==
    stopped => (~isDetecting /\ rulaScores = Null /\ landmarks = Null)

\* C26, as far as the code goes: after stopDetection nothing is published
\* as long as no landmarker has been stored since.
C26_QuietUntilStored ==
    (stopped /\ poseLandmarkerRef = NoRef) =>
        (~isDetecting /\ rulaScores = Null /\ landmarks = Null)

\* stopDetection came while startDetection awaited; the initialisation then
\* finished and a frame has published scores
C26_Witness ==
    /\ stopped
    /\ pending = {}
    /\ isDetecting
    /\ rulaScores # Null
    /\ landmarks # Null

\* C27: at any time at most one detection loop has a callback requested and
\* at most one landmarker is open, and after stopDetection (until the next
\* startDetection) no callback is requested and no landmarker is open.
C27_OneLoopOneLandmarker ==
    /\ Cardinality(scheduled) <= 1
    /\ Cardinality(open) <= 1
    /\ stopped => (scheduled = {} /\ open = {})

\* C27, as far as the code goes: the landmarker the hook holds is open, the
\* request it holds is pending, every loop belongs to a landmarker that was
\* created, and a run with a single startDetection call keeps to one loop and
\* one landmarker.
C27_RefsLive ==
    /\ poseLandmarkerRef # NoRef => poseLandmarkerRef \in open
    /\ animationFrameRef # NoRef => animationFrameRef \in scheduled
    /\ scheduled \cup open \subseteq (1..starts) \ pending
    /\ starts <= 1 => (Cardinality(scheduled) <= 1 /\ Cardinality(open) <= 1)

\* startDetection ran twice before stopDetection: the first loop still has
\* its callback requested and the first landmarker was never closed
C27_Witness ==
    /\ stopped
    /\ pending = {}
    /\ poseLandmarkerRef = NoRef
    /\ scheduled = {1}
    /\ open = {1}

====
